---- MODULE Spec2Model ----
(***************************************************************************)
(* Model of pytest_testrail/plugin.py: the PyTestRailPlugin object, its    *)
(* three pytest hooks (pytest_collection_modifyitems,                      *)
(* pytest_runtest_makereport, pytest_sessionfinish) and the helpers they   *)
(* call.  The remote TestRail client is the environment: every response it *)
(* gives is an input of the hook that asks for it.  print() output is not  *)
(* program state and is not modelled.                                      *)
(*                                                                         *)
(* Text is a tuple of one-character strings ("C12" is <<"C","1","2">>);    *)
(* a duration is a whole number of tenths of a second (14 is 1.4 s).       *)
(***************************************************************************)
EXTENDS Integers, Sequences, FiniteSets, TLC

VARIABLES
    run_id,          \* the run_id argument of __init__
    plan_id,         \* the plan_id argument of __init__
    testrun_id,      \* self.testrun_id
    testplan_id,     \* self.testplan_id
    results,         \* self.results
    add_skips,       \* self.add_skips
    version,         \* self.version
    testrun_name,    \* self.testrun_name ("None" when not configured)
    project_id,      \* self.project_id
    rounding,        \* rounding rule of the interpreter's round()
    phase,           \* position of the pytest session
    resolution,      \* the branch pytest_collection_modifyitems took
    handler,         \* the hook that ran last
    items,           \* the items handed to pytest_collection_modifyitems
    rep,             \* the arguments of pytest_runtest_makereport, when it ran last
    calls,           \* client calls made by the hook that ran last, in order
    passes           \* testrun ids handed to add_results by the last hook

vars == <<run_id, plan_id, testrun_id, testplan_id, results, add_skips,
          version, testrun_name, project_id, rounding, phase, resolution,
          handler, items, rep, calls, passes>>

config == <<run_id, plan_id, add_skips, version, project_id, rounding>>

(***************************************************************************)
(* Bounds                                                                  *)
(***************************************************************************)
MaxResults == 2

(***************************************************************************)
(* Module constants                                                        *)
(***************************************************************************)
PYTEST_TO_TESTRAIL_STATUS == [passed |-> 1, failed |-> 5, skipped |-> 2]

COMMENT_SIZE_LIMIT == 4000

(***************************************************************************)
(* Text helpers                                                            *)
(***************************************************************************)
DigitValue ==
    [c \in {"0", "1", "2", "3", "4", "5", "6", "7", "8", "9"} |->
        CASE c = "0" -> 0 [] c = "1" -> 1 [] c = "2" -> 2 [] c = "3" -> 3
          [] c = "4" -> 4 [] c = "5" -> 5 [] c = "6" -> 6 [] c = "7" -> 7
          [] c = "8" -> 8 [] c = "9" -> 9]

IsDigit(c) == c \in DOMAIN DigitValue

\* re.search('(?P<test_id>[0-9]+$)', s): the maximal run of digits that ends
\* the string; the empty tuple stands for "no match" (None).
RECURSIVE TrailingDigits(_)
TrailingDigits(s) ==
    IF s = <<>> \/ ~IsDigit(s[Len(s)])
        THEN <<>>
        ELSE TrailingDigits(SubSeq(s, 1, Len(s) - 1)) \o <<s[Len(s)]>>

\* int() of a run of decimal digits
RECURSIVE ParseInt(_)
ParseInt(d) ==
    IF d = <<>> THEN 0
    ELSE 10 * ParseInt(SubSeq(d, 1, Len(d) - 1)) + DigitValue[d[Len(d)]]

Raise == [raised |-> TRUE, value |-> <<>>]

Return(v) == [raised |-> FALSE, value |-> v]

\* clean_test_ids: an id without a trailing digit run makes re.search return
\* None, and None.groupdict() raises.
RECURSIVE clean_test_ids(_)
clean_test_ids(test_ids) ==
    IF test_ids = <<>> THEN Return(<<>>)
    ELSE LET m    == TrailingDigits(Head(test_ids))
             rest == clean_test_ids(Tail(test_ids))
         IN  IF m = <<>> \/ rest.raised THEN Raise
             ELSE Return(<<ParseInt(m)>> \o rest.value)

\* get_testrail_keys
RECURSIVE get_testrail_keys(_)
get_testrail_keys(its) ==
    IF its = <<>> THEN Return(<<>>)
    ELSE LET item == Head(its)
             rest == get_testrail_keys(Tail(its))
             own  == IF item.marker THEN clean_test_ids(item.ids)
                     ELSE Return(<<>>)
         IN  IF own.raised \/ rest.raised THEN Raise
             ELSE Return(own.value \o rest.value)

get_test_outcome(outcome) == PYTEST_TO_TESTRAIL_STATUS[outcome]

(***************************************************************************)
(* Inputs                                                                  *)
(***************************************************************************)
NoMarker == [marker |-> FALSE, ids |-> <<>>]

Marked(ids) == [marker |-> TRUE, ids |-> ids]

\* the collected sessions the model runs
ItemLists ==
    { <<>>,
      <<Marked(<<>>)>>,
      <<Marked(<< <<"C", "1", "2">>, <<"0", "1">> >>), NoMarker>>,
      <<Marked(<< <<"2">> >>), Marked(<< <<"C", "2">>, <<"T", "1">> >>)>>,
      <<Marked(<< <<"C", "1">>, <<"C">> >>)>> }

RunIds == {0, 5}

PlanIds == {0, 7}

NewRunIds == {9}

Timestamps == {"Automated Run 03-11-2026 09:00:00"}

\* the remaining constructor arguments and the interpreter, taken together
Setups ==
    { [version |-> <<>>, tr_name |-> "None", rounding |-> "half_even"],
      [version |-> <<"1", ".", "0">>, tr_name |-> "nightly", rounding |-> "half_away"] }

Error == [error |-> TRUE]

Ok(fields) == [error |-> FALSE] @@ fields

Run(id, done) == [id |-> id, is_completed |-> done]

Entry(runs) == [runs |-> runs]

RunResponses == {Error} \cup {Ok([is_completed |-> b]) : b \in BOOLEAN}

\* the answers to get_plan the model draws from
PlanResponses ==
    { Error,
      Ok([is_completed |-> TRUE, entries |-> <<Entry(<<Run(1, TRUE)>>)>>]),
      Ok([is_completed |-> FALSE, entries |-> <<>>]),
      Ok([is_completed |-> FALSE,
          entries |-> <<Entry(<<Run(1, FALSE), Run(2, TRUE)>>),
                        Entry(<<Run(3, FALSE)>>)>>]),
      Ok([is_completed |-> TRUE,
          entries |-> <<Entry(<<>>), Entry(<<Run(2, FALSE)>>)>>]) }

AddRunResponses == {Error} \cup {Ok([id |-> n]) : n \in NewRunIds}

NoReport == [item |-> 0]

(***************************************************************************)
(* Construction                                                            *)
(***************************************************************************)
\* PyTestRailPlugin.__init__
Init ==
    /\ run_id \in RunIds
    /\ plan_id \in PlanIds
    /\ testrun_id = run_id
    /\ testplan_id = plan_id
    /\ results = <<>>
    /\ add_skips \in BOOLEAN
    /\ \E s \in Setups :
          /\ version = s.version
          /\ testrun_name = s.tr_name
          /\ rounding = s.rounding
    /\ project_id = 3
    /\ phase = "constructed"
    /\ resolution = "unresolved"
    /\ handler = "init"
    /\ items = <<>>
    /\ rep = NoReport
    /\ calls = <<>>
    /\ passes = <<>>

(***************************************************************************)
(* pytest_collection_modifyitems                                           *)
(***************************************************************************)
\* a client call with the response it got
GetPlan(id, resp) == [op |-> "get_plan", id |-> id, response |-> resp]

GetRun(id, resp) == [op |-> "get_run", id |-> id, response |-> resp]

AddRun(project, name, keys, resp) ==
    [op |-> "add_run", project |-> project, name |-> name,
     case_ids |-> keys, response |-> resp]

\* mutant: an entity that was fetched without error counts as open
IsAvailable_IgnoresCompletion(resp) == ~resp.error

\* is_testplan_available / is_testrun_available, given the fetched response
IsAvailable(resp) == ~resp.error /\ resp.is_completed = FALSE

\* create_test_run: the run id after the add_run response
CreatedRunId(old, resp) == IF resp.error THEN old ELSE resp.id

pytest_collection_modifyitems(its, planResp, runResp, addResp, now) ==
    LET tr_keys  == get_testrail_keys(its)
        askPlan  == testplan_id # 0
        planOpen == askPlan /\ IsAvailable(planResp)
        askRun   == ~planOpen /\ testrun_id # 0
        runOpen  == askRun /\ IsAvailable(runResp)
        create   == ~planOpen /\ ~runOpen
        name     == IF testrun_name = "None" THEN now ELSE testrun_name
        fetches  == (IF askPlan THEN <<GetPlan(testplan_id, planResp)>> ELSE <<>>)
                    \o (IF askRun THEN <<GetRun(testrun_id, runResp)>> ELSE <<>>)
    IN  /\ phase = "constructed"
        /\ handler' = "collection"
        /\ items' = its
        /\ passes' = <<>>
        /\ UNCHANGED <<results, rep, config>>
        /\ IF tr_keys.raised
             THEN /\ phase' = "raised"
                  /\ resolution' = resolution
                  /\ calls' = <<>>
                  /\ UNCHANGED <<testrun_id, testplan_id, testrun_name>>
             ELSE /\ phase' = "collected"
                  /\ resolution' = IF planOpen THEN "plan"
                                   ELSE IF runOpen THEN "run"
                                   ELSE IF addResp.error THEN "failed"
                                   ELSE "created"
                  /\ testrun_id' = IF planOpen THEN 0
                                   ELSE IF runOpen THEN testrun_id
                                   ELSE CreatedRunId(testrun_id, addResp)
                  /\ testplan_id' = IF ~planOpen /\ runOpen THEN 0
                                    ELSE testplan_id
                  /\ testrun_name' = IF create THEN name ELSE testrun_name
                  /\ calls' = fetches \o
                              (IF create
                                 THEN <<AddRun(project_id, name, tr_keys.value, addResp)>>
                                 ELSE <<>>)

\* a response is drawn for the fetches the hook can make
Collect ==
    \E its \in ItemLists, addResp \in AddRunResponses, now \in Timestamps :
        \E planResp \in (IF testplan_id # 0 THEN PlanResponses ELSE {Error}),
           runResp \in (IF testrun_id # 0 THEN RunResponses ELSE {Error}) :
            pytest_collection_modifyitems(its, planResp, runResp, addResp, now)

(***************************************************************************)
(* pytest_runtest_makereport / add_result                                  *)
(***************************************************************************)
Record(test_id, status, comment, duration) ==
    [case_id |-> test_id, status_id |-> status, comment |-> comment,
     duration |-> duration]

\* mutant: the new records go in front of the list
add_result_Prepends(old, test_ids, status, comment, duration) ==
    [k \in 1..Len(test_ids) |->
        Record(test_ids[k], status, comment, duration)] \o old

\* add_result: one record per test id, appended in order
add_result(old, test_ids, status, comment, duration) ==
    old \o [k \in 1..Len(test_ids) |->
                Record(test_ids[k], status, comment, duration)]

Report(i, when, outcome, longrepr, duration) ==
    [item |-> i, when |-> when, outcome |-> outcome, longrepr |-> longrepr,
     duration |-> duration]

\* the records the hook leaves in self.results
Reported(old, item, when, outcome, longrepr, duration) ==
    IF item.marker /\ when = "call" /\ item.ids # <<>>
        THEN add_result(old, clean_test_ids(item.ids).value,
                        get_test_outcome(outcome), longrepr, duration)
        ELSE old

pytest_runtest_makereport(i, when, outcome, longrepr, duration) ==
    LET new == Reported(results, items[i], when, outcome, longrepr, duration)
    IN  /\ phase = "collected"
        /\ Len(new) <= MaxResults
        /\ results' = new
        /\ rep' = Report(i, when, outcome, longrepr, duration)
        /\ handler' = "makereport"
        /\ calls' = <<>>
        /\ passes' = <<>>
        /\ UNCHANGED <<testrun_id, testplan_id, testrun_name, phase,
                       resolution, items, config>>

\* the reports the model delivers: (when, outcome, longrepr, duration)
Reports ==
    { <<"call", "passed", <<>>, 14>>,
      <<"call", "failed", <<"E", "\n", "x">>, 25>>,
      <<"call", "skipped", <<"s">>, 0>>,
      <<"setup", "passed", <<>>, 0>>,
      <<"teardown", "failed", <<"E", "\n", "x">>, 25>> }

MakeReport ==
    \E i \in 1..Len(items), r \in Reports :
        pytest_runtest_makereport(i, r[1], r[2], r[3], r[4])

(***************************************************************************)
(* add_results                                                             *)
(***************************************************************************)
\* list.sort(key=itemgetter(key)): a stable sort, here by insertion
RECURSIVE InsertByKey(_, _, _)
InsertByKey(sorted, r, key) ==
    IF sorted = <<>> THEN <<r>>
    ELSE IF sorted[Len(sorted)][key] <= r[key] THEN Append(sorted, r)
    ELSE Append(InsertByKey(SubSeq(sorted, 1, Len(sorted) - 1), r, key),
                sorted[Len(sorted)])

RECURSIVE SortByKey(_, _)
SortByKey(list, key) ==
    IF list = <<>> THEN <<>>
    ELSE InsertByKey(SortByKey(SubSeq(list, 1, Len(list) - 1), key),
                     list[Len(list)], key)

\* mutant: the two sorts in the other order
SortResults_CaseFirst(list) ==
    SortByKey(SortByKey(list, "case_id"), "status_id")

\* the two sorts that open add_results
SortResults(list) == SortByKey(SortByKey(list, "status_id"), "case_id")

\* int(round(duration)) for duration >= 1, in whole seconds
RoundSeconds(duration) ==
    LET q == duration \div 10
        r == duration % 10
    IN  IF r < 5 THEN q
        ELSE IF r > 5 THEN q + 1
        ELSE IF rounding = "half_even" /\ q % 2 = 0 THEN q
        ELSE q + 1

\* mutant: no clamp to one second
ElapsedSeconds_NoClamp(duration) == RoundSeconds(duration)

\* duration = 1 if (duration < 1) else int(round(duration))
ElapsedSeconds(duration) ==
    IF duration < 10 THEN 1 ELSE RoundSeconds(duration)

\* str(comment)[-COMMENT_SIZE_LIMIT:]
LastChars(text) ==
    IF Len(text) > COMMENT_SIZE_LIMIT
        THEN SubSeq(text, Len(text) - COMMENT_SIZE_LIMIT + 1, Len(text))
        ELSE text

\* .replace('\n', '\n    '), as the pieces whose concatenation is the string
IndentLines(text) ==
    [k \in 1..Len(text) |-> IF text[k] = "\n" THEN "\n    " ELSE text[k]]

CommentField(comment) ==
    <<"# Pytest result: #\n">>
    \o (IF Len(comment) > COMMENT_SIZE_LIMIT THEN <<"Log truncated\n...\n">> ELSE <<>>)
    \o <<"    ">> \o IndentLines(LastChars(comment))

\* the payload built for one record
Payload(result) ==
    [status_id |-> result.status_id]
    @@ (IF version # <<>> THEN [version |-> version] ELSE <<>>)
    @@ (IF result.comment # <<>>
          THEN [comment |-> CommentField(result.comment)] ELSE <<>>)
    @@ (IF result.duration # 0
          THEN [elapsed |-> ToString(ElapsedSeconds(result.duration)) \o "s"]
          ELSE <<>>)

\* mutant: skipped results are left out whatever add_skips says
Suppressed_IgnoresFlag(data) ==
    data.status_id = PYTEST_TO_TESTRAIL_STATUS.skipped

\* the skip filter, taken on the payload
Suppressed(data) ==
    add_skips = FALSE /\ data.status_id = PYTEST_TO_TESTRAIL_STATUS.skipped

AddResult(run, result, data, err) ==
    [op |-> "add_result_for_case", run |-> run, case |-> result.case_id,
     data |-> data, response |-> [error |-> err]]

\* mutant: the loop ends at the first error answer
RECURSIVE PublishFrom_StopsAtError(_, _, _, _)
PublishFrom_StopsAtError(run, list, i, errs) ==
    IF i > Len(list) THEN <<>>
    ELSE LET data == Payload(list[i])
         IN  IF Suppressed(data)
               THEN PublishFrom_StopsAtError(run, list, i + 1, errs)
               ELSE <<AddResult(run, list[i], data, errs[i])>>
                    \o (IF errs[i] THEN <<>>
                        ELSE PublishFrom_StopsAtError(run, list, i + 1, errs))

\* the publishing loop over the sorted records, from record i on; errs[k] tells
\* whether the client answers the post for record k with an error
RECURSIVE PublishFrom(_, _, _, _)
PublishFrom(run, list, i, errs) ==
    IF i > Len(list) THEN <<>>
    ELSE LET data == Payload(list[i])
         IN  IF Suppressed(data)
               THEN PublishFrom(run, list, i + 1, errs)
               ELSE <<AddResult(run, list[i], data, errs[i])>>
                    \o PublishFrom(run, list, i + 1, errs)

\* the client calls of add_results(testrun_id)
add_results(run, list, errs) == PublishFrom(run, SortResults(list), 1, errs)

(***************************************************************************)
(* pytest_sessionfinish                                                    *)
(***************************************************************************)
RECURSIVE OpenRuns(_)
OpenRuns(runs) ==
    IF runs = <<>> THEN <<>>
    ELSE (IF ~Head(runs).is_completed THEN <<Head(runs).id>> ELSE <<>>)
         \o OpenRuns(Tail(runs))

RECURSIVE OpenRunsOfEntries(_)
OpenRunsOfEntries(entries) ==
    IF entries = <<>> THEN <<>>
    ELSE OpenRuns(Head(entries).runs) \o OpenRunsOfEntries(Tail(entries))

\* get_available_testruns, given the fetched response
get_available_testruns(resp) ==
    IF resp.error THEN <<>> ELSE OpenRunsOfEntries(resp.entries)

\* the testruns pytest_sessionfinish publishes to
Targets(planResp) ==
    IF results = <<>> THEN <<>>
    ELSE IF testrun_id # 0 THEN <<testrun_id>>
    ELSE IF testplan_id # 0 THEN get_available_testruns(planResp)
    ELSE <<>>

RECURSIVE PublishAll(_, _, _)
PublishAll(targets, list, errs) ==
    IF targets = <<>> THEN <<>>
    ELSE add_results(Head(targets), list, errs[Len(errs) - Len(targets) + 1])
         \o PublishAll(Tail(targets), list, errs)

\* mutant: the hook drops the run id once it is done
SessionFinishContext_DropsRun ==
    testrun_id' = 0 /\ UNCHANGED testplan_id

\* what the hook does to the run context: neither it nor add_results assigns
\* self.testrun_id or self.testplan_id
SessionFinishContext ==
    UNCHANGED <<testrun_id, testplan_id>>

\* pytest also runs the hook when the collection hook raised
pytest_sessionfinish(planResp, errs) ==
    LET targets == Targets(planResp)
        fetch   == IF results # <<>> /\ testrun_id = 0 /\ testplan_id # 0
                     THEN <<GetPlan(testplan_id, planResp)>> ELSE <<>>
    IN  /\ phase \in {"collected", "raised"}
        /\ Len(errs) = Len(targets)
        /\ handler' = "sessionfinish"
        /\ passes' = targets
        /\ results' = IF targets = <<>> THEN results ELSE SortResults(results)
        /\ calls' = fetch \o PublishAll(targets, results, errs)
        /\ rep' = NoReport
        /\ SessionFinishContext
        /\ UNCHANGED <<testrun_name, phase, resolution, items, config>>

\* every pattern of error answers: one flag per target run and posted record
ErrorPatterns(n) ==
    [1..n -> {e \in [1..Len(results) -> BOOLEAN] :
                \A k \in 1..Len(results) :
                    Suppressed(Payload(results[k])) => ~e[k]}]

Finish ==
    \E planResp \in (IF results # <<>> /\ testrun_id = 0 /\ testplan_id # 0
                        THEN PlanResponses ELSE {Error}) :
        \E errs \in ErrorPatterns(Len(Targets(planResp))) :
            pytest_sessionfinish(planResp, errs)

Next == Collect \/ MakeReport \/ Finish

Spec == Init /\ [][Next]_vars

(***************************************************************************)
(* Publishing on its own: the plugin holds run 5 and a result list filled  *)
(* by add_result, and pytest_sessionfinish publishes it.  The list is      *)
(* either any list of up to MaxSortLen records over two cases and two      *)
(* statuses, or one record of any duration up to MaxDuration.              *)
(***************************************************************************)
MaxSortLen == 3

MaxDuration == 40

SortRecords ==
    { Record(c, st, cm, 0) : c \in {1, 2}, st \in {1, 5}, cm \in {<<>>, <<"s">>} }

TimedRecords ==
    { Record(1, st, <<>>, d) : st \in {1, 2, 5}, d \in 0..MaxDuration }

ResultLists ==
    UNION { [1..n -> SortRecords] : n \in 0..MaxSortLen }
    \cup { <<r>> : r \in TimedRecords }

InitPublish ==
    /\ run_id = 5
    /\ plan_id = 0
    /\ testrun_id = 5
    /\ testplan_id = 0
    /\ results \in ResultLists
    /\ add_skips \in BOOLEAN
    /\ \E s \in Setups :
          /\ version = s.version
          /\ testrun_name = s.tr_name
          /\ rounding = s.rounding
    /\ project_id = 3
    /\ phase = "collected"
    /\ resolution = "run"
    /\ handler = "add_result"
    /\ items = <<>>
    /\ rep = NoReport
    /\ calls = <<>>
    /\ passes = <<>>

SpecPublish == InitPublish /\ [][Finish]_vars

(***************************************************************************)
(* Properties                                                              *)
(***************************************************************************)
IsAddResult(c) == c.op = "add_result_for_case"

IsAddRun(c) == c.op = "add_run"

AddResultCalls == SelectSeq(calls, IsAddResult)

AddRunCalls == SelectSeq(calls, IsAddRun)

Range(f) == {f[k] : k \in DOMAIN f}

\* the fetch of the configured plan (run) found it open
ConfirmedOpen(op, id) ==
    \E k \in 1..Len(calls) :
        /\ calls[k].op = op
        /\ calls[k].id = id
        /\ ~calls[k].response.error
        /\ calls[k].response.is_completed = FALSE

Fetches(op) == {k \in 1..Len(calls) : calls[k].op = op}

AfterCollection == handler = "collection" /\ phase = "collected"

\* C1: when run creation fails, neither a run id nor a plan id is active
\* afterwards, and the session end that follows posts no result.
C1_FailedCreationLeavesNoTarget ==
    resolution = "failed" =>
        /\ testrun_id = 0
        /\ testplan_id = 0
        /\ (handler = "sessionfinish" => AddResultCalls = <<>>)

\* C2: once the collection hook has resolved the target, at most one of the
\* run id and the plan id is non-zero; the plan branch leaves no run id, the
\* run branches (selected, created) leave no plan id.
C2_AtMostOneTargetActive ==
    phase = "collected" =>
        /\ ~(testrun_id # 0 /\ testplan_id # 0)
        /\ (resolution = "plan" => testrun_id = 0)
        /\ (resolution \in {"run", "created"} => testplan_id = 0)

\* the case id the j-th identifier of the i-th item declares
DeclaredCase(i, j) == ParseInt(TrailingDigits(items[i].ids[j]))

DeclaredPairs ==
    {<<i, j>> \in (1..Len(items)) \X (1..2) :
        items[i].marker /\ j <= Len(items[i].ids)}

\* C3: resolution precedence of the collection hook.  A configured plan is
\* fetched once; found open, it is selected, the run id is cleared and no run
\* is created.  Otherwise a configured run is fetched once; found open, it is
\* selected, the plan id is cleared and no run is created.  Otherwise exactly
\* one add_run is posted for the configured project with the case ids declared
\* by the collected items, and the id it returns becomes the run id.
C3_ResolutionPrecedence ==
    AfterCollection =>
        LET planOpen == plan_id # 0 /\ ConfirmedOpen("get_plan", plan_id)
            runOpen  == run_id # 0 /\ ConfirmedOpen("get_run", run_id)
        IN  /\ Cardinality(Fetches("get_plan")) = (IF plan_id # 0 THEN 1 ELSE 0)
            /\ \A k \in Fetches("get_plan") : calls[k].id = plan_id
            /\ Cardinality(Fetches("get_run")) =
                   (IF ~planOpen /\ run_id # 0 THEN 1 ELSE 0)
            /\ \A k \in Fetches("get_run") : calls[k].id = run_id
            /\ planOpen =>
                   /\ testplan_id = plan_id
                   /\ testrun_id = 0
                   /\ AddRunCalls = <<>>
            /\ ~planOpen /\ runOpen =>
                   /\ testrun_id = run_id
                   /\ testplan_id = 0
                   /\ AddRunCalls = <<>>
            /\ ~planOpen /\ ~runOpen =>
                   /\ Len(AddRunCalls) = 1
                   /\ AddRunCalls[1].project = project_id
                   /\ Len(AddRunCalls[1].case_ids) = Cardinality(DeclaredPairs)
                   /\ Range(AddRunCalls[1].case_ids) =
                          {DeclaredCase(p[1], p[2]) : p \in DeclaredPairs}
                   /\ (~AddRunCalls[1].response.error =>
                          testrun_id = AddRunCalls[1].response.id)

\* both ids configured, neither found open, a run created for three declared ids
C3_Witness ==
    /\ AfterCollection
    /\ plan_id # 0 /\ run_id # 0
    /\ resolution = "created"
    /\ testrun_id \in NewRunIds
    /\ Len(AddRunCalls) = 1
    /\ Len(AddRunCalls[1].case_ids) = 3

\* C4: after the collection hook has returned, no hook changes the run id or
\* the plan id.
C4_TargetFixedAfterCollection ==
    [][phase = "collected" =>
          testrun_id' = testrun_id /\ testplan_id' = testplan_id]_vars

\* a session end that published to the run created at collection
C4_Witness ==
    /\ handler = "sessionfinish"
    /\ resolution = "created"
    /\ passes = <<testrun_id>>
    /\ AddResultCalls # <<>>

\* the open runs listed by a get_plan response
OpenRunSet(resp) ==
    IF resp.error THEN {}
    ELSE {e.runs[k].id : <<e, k>> \in
            {<<e, k>> \in Range(resp.entries) \X (1..2) :
                k <= Len(e.runs) /\ ~e.runs[k].is_completed}}

\* C5: targets of the session end.  Without result records no client call is
\* made.  Otherwise the runs published to are the run id alone when a run id is
\* active, the open runs of the fetched plan when a plan id is active, and none
\* when neither is; every target gets one pass and no other run gets a post.
C5_SessionFinishTargets ==
    handler = "sessionfinish" =>
        /\ results = <<>> => calls = <<>>
        /\ results # <<>> =>
              /\ testrun_id # 0 => passes = <<testrun_id>>
              /\ testplan_id # 0 =>
                    \E k \in Fetches("get_plan") :
                        /\ calls[k].id = testplan_id
                        /\ Range(passes) = OpenRunSet(calls[k].response)
                        /\ Len(passes) = Cardinality(Range(passes))
              /\ (testrun_id = 0 /\ testplan_id = 0) => passes = <<>>
              /\ \A k \in 1..Len(AddResultCalls) :
                    AddResultCalls[k].run \in Range(passes)

\* positions in the call log of the posts made for one run
PostsTo(run) ==
    {k \in 1..Len(calls) : IsAddResult(calls[k]) /\ calls[k].run = run}

PostsFor(run, case, status) ==
    {k \in PostsTo(run) :
        calls[k].case = case /\ calls[k].data.status_id = status}

RecordsWith(case, status) ==
    {j \in 1..Len(results) :
        results[j].case_id = case /\ results[j].status_id = status}

Skipped == 2

Cases == {r.case_id : r \in Range(results)}

Statuses == {r.status_id : r \in Range(results)}

\* C6: in every pass, whatever the client answers, the records of every case
\* with a status other than skipped are posted once each, the skipped records
\* of a case are posted once each or not at all, and nothing else is posted.
C6_EachRecordPostedOnce ==
    handler = "sessionfinish" =>
        \A p \in 1..Len(passes) :
            /\ \A c \in Cases, st \in Statuses \ {Skipped} :
                  Cardinality(PostsFor(passes[p], c, st)) =
                      Cardinality(RecordsWith(c, st))
            /\ \A c \in Cases :
                  Cardinality(PostsFor(passes[p], c, Skipped)) \in
                      {0, Cardinality(RecordsWith(c, Skipped))}
            /\ \A k \in PostsTo(passes[p]) :
                  RecordsWith(calls[k].case, calls[k].data.status_id) # {}

\* an error answer to a post that is followed by another post for the same run
C6_Witness ==
    /\ handler = "sessionfinish"
    /\ \E k \in 1..Len(calls), m \in 1..Len(calls) :
          /\ k < m
          /\ IsAddResult(calls[k]) /\ IsAddResult(calls[m])
          /\ calls[k].run = calls[m].run
          /\ calls[k].response.error
          /\ ~calls[m].response.error

\* (case_id, status_id) of a is at most that of b
KeyLeq(a, b) ==
    \/ a.case_id < b.case_id
    \/ a.case_id = b.case_id /\ a.status_id <= b.status_id

\* one stable sort on the composite key: the records are inserted last to
\* first, each in front of the records whose key is not smaller
RECURSIVE CompositeInsert(_, _)
CompositeInsert(sorted, r) ==
    IF sorted = <<>> THEN <<r>>
    ELSE IF KeyLeq(r, Head(sorted)) THEN <<r>> \o sorted
    ELSE <<Head(sorted)>> \o CompositeInsert(Tail(sorted), r)

RECURSIVE CompositeSort(_)
CompositeSort(list) ==
    IF list = <<>> THEN <<>>
    ELSE CompositeInsert(CompositeSort(Tail(list)), Head(list))

Occurrences(list, r) == Cardinality({k \in 1..Len(list) : list[k] = r})

PostKey(c) == [case_id |-> c.case, status_id |-> c.data.status_id]

\* C7: a session end that publishes leaves the records in the order of one
\* stable sort on (case_id, status_id): non-decreasing in case_id and, within a
\* case, in status_id, each record as often as before; the posts follow that
\* order.
C7_SubmissionOrder ==
    [][handler' = "sessionfinish" /\ passes' # <<>> =>
          /\ results' = CompositeSort(results)
          /\ \A i \in 1..Len(results'), j \in 1..Len(results') :
                i < j => KeyLeq(results'[i], results'[j])
          /\ Len(results') = Len(results)
          /\ \A r \in Range(results) \cup Range(results') :
                Occurrences(results', r) = Occurrences(results, r)
          /\ \A i \in 1..Len(calls'), j \in 1..Len(calls') :
                i < j => KeyLeq(PostKey(calls'[i]), PostKey(calls'[j]))]_vars

\* three published records: two of one case and status that differ in their
\* comment, and a case with two statuses
C7_Witness ==
    /\ handler = "sessionfinish"
    /\ Len(results) = 3
    /\ Len(AddResultCalls) = 3
    /\ \E i \in 1..2 :
          /\ results[i].case_id = results[i + 1].case_id
          /\ results[i].status_id = results[i + 1].status_id
          /\ results[i] # results[i + 1]
    /\ \E i \in 1..2 :
          /\ results[i].case_id = results[i + 1].case_id
          /\ results[i].status_id < results[i + 1].status_id

\* C8: with add_skips off a skipped record is posted to no run while passed and
\* failed records are; with add_skips on every skipped record is posted once
\* to each target run; the filter taken on the payload decides as the filter
\* taken on the record.
C8_SkipSuppression ==
    handler = "sessionfinish" =>
        /\ \A p \in 1..Len(passes), c \in Cases :
              /\ ~add_skips =>
                    /\ PostsFor(passes[p], c, Skipped) = {}
                    /\ \A st \in {1, 5} :
                          Cardinality(PostsFor(passes[p], c, st)) =
                              Cardinality(RecordsWith(c, st))
              /\ add_skips =>
                    Cardinality(PostsFor(passes[p], c, Skipped)) =
                        Cardinality(RecordsWith(c, Skipped))
        /\ \A j \in 1..Len(results) :
              Suppressed(Payload(results[j])) <=>
                  (~add_skips /\ results[j].status_id = Skipped)

\* add_skips off, two target runs, a skipped record left out and another posted
C8_Witness ==
    /\ handler = "sessionfinish"
    /\ ~add_skips
    /\ Len(passes) = 2
    /\ \E c \in Cases : RecordsWith(c, Skipped) # {}
    /\ Len(AddResultCalls) = 2

\* what a report must append: one record per declared id
Expected(r) ==
    LET item == items[r.item]
        st   == CASE r.outcome = "passed" -> 1
                  [] r.outcome = "failed" -> 5
                  [] r.outcome = "skipped" -> 2
    IN  IF r.when = "call" /\ item.marker /\ Len(item.ids) >= 1
          THEN [j \in 1..Len(item.ids) |->
                   [case_id |-> DeclaredCase(r.item, j), status_id |-> st,
                    comment |-> r.longrepr, duration |-> r.duration]]
          ELSE <<>>

\* C9: a report of the call phase of a test with k >= 1 declared ids appends k
\* records, one per id, with the mapped status and the report's comment and
\* duration; any other report appends nothing; the records already held, the
\* run id and the plan id stay as they are and no client call is made.
C9_Accumulation ==
    [][handler' = "makereport" =>
          /\ results' = results \o Expected(rep')
          /\ testrun_id' = testrun_id
          /\ testplan_id' = testplan_id
          /\ calls' = <<>>]_vars

\* a failed call report of a two-id test: two records with status 5 and the
\* report's comment and duration
C9_Witness ==
    /\ handler = "makereport"
    /\ rep.when = "call"
    /\ rep.outcome = "failed"
    /\ Len(items[rep.item].ids) = 2
    /\ Len(results) = 2
    /\ results[1].case_id # results[2].case_id
    /\ results[2].status_id = 5
    /\ results[2].comment # <<>>
    /\ results[2].duration = 25

\* the elapsed field a duration must give
ElapsedAsClaimed(d, data) ==
    IF d = 0 THEN "elapsed" \notin DOMAIN data
    ELSE /\ "elapsed" \in DOMAIN data
         /\ \E n \in 1..(MaxDuration \div 10 + 2) :
               /\ data.elapsed = ToString(n) \o "s"
               /\ d < 10 => n = 1
               /\ d >= 10 => (10 * n - d <= 5 /\ d - 10 * n <= 5)
               /\ d \in {3, 14} => n = 1
               /\ d = 26 => n = 3

\* C10: a post carries no elapsed field for duration 0 and otherwise "<n>s"
\* with n >= 1, n = 1 below one second and the nearest whole second from one
\* second on.
C10_ElapsedFormatting ==
    handler = "sessionfinish" =>
        \A k \in 1..Len(AddResultCalls) :
            \E j \in 1..Len(results) :
                /\ results[j].case_id = AddResultCalls[k].case
                /\ results[j].status_id = AddResultCalls[k].data.status_id
                /\ ElapsedAsClaimed(results[j].duration, AddResultCalls[k].data)

\* 2.6 seconds posted as "3s"
C10_Witness ==
    /\ handler = "sessionfinish"
    /\ Len(results) = 1
    /\ results[1].duration = 26
    /\ Len(AddResultCalls) = 1
    /\ AddResultCalls[1].data.elapsed = "3s"
====
